---- MODULE Spec2Model ----
(***************************************************************************)
(* The CGOL widget of src/src/index.js.  Its Game-of-Life engine (class     *)
(* GameOfLife): two buffers of height rows by width cells, the index of    *)
(* the active one, and the cached live-cell count.  Its page: the handlers *)
(* onWidgetLoad and onEventReceived and the render loop Render.            *)
(*                                                                         *)
(* Numbers in [0,1] (Math.random() draws, thresholds, dissolveChance) are  *)
(* written in thousandths: 0.2 is 200, 1.0 is 1000.  Coordinates and       *)
(* dimensions are integers, on which Math.floor is the identity.           *)
(***************************************************************************)
EXTENDS Integers, Sequences, FiniteSets, TLC

VARIABLES
    constructed,  \* TRUE once `new GameOfLife(...)` has returned an engine
    width,        \* #width
    height,       \* #height
    arrays,       \* #arrays: [0..1 -> [0..height-1 -> [0..width-1 -> cell]]]
    index,        \* #index
    count,        \* #count
    last,         \* the last call made on the engine, its arguments and how it ended
    stepsMod2,    \* the number of step calls since construction, modulo 2
    hasInit,      \* hasInit
    isRendering,  \* isRendering
    lastEventTime,\* lastEventTime, on the clock `now`
    now,          \* what `new Date()` reads
    awaiting,     \* Render invocations suspended at `await createImageBitmap`
    timeouts,     \* callbacks given to setTimeout that have not run yet
    frames,       \* Render callbacks given to requestAnimationFrame, not run yet
    canvas,       \* what the canvas shows: "clear" or "drawn"
    did,          \* the last handler the page ran and how it went
    idleSince     \* when the widget loaded or last took an event as usable

engine == <<constructed, width, height, arrays, index, count>>
widget == <<hasInit, isRendering, lastEventTime, now, awaiting, timeouts,
            frames, canvas, did, idleSince>>
vars == <<constructed, width, height, arrays, index, count, last, stepsMod2,
          hasInit, isRendering, lastEventTime, now, awaiting, timeouts,
          frames, canvas, did, idleSince>>

----------------------------------------------------------------------------
(* Bounds *)

\* Largest width or height of an engine of Spec and RandomizeSpec.
MaxDim == 2
\* Largest number of cells of an engine of Spec and RandomizeSpec.
MaxCells == 4
\* How far below zero the constructor's width and height go.
NegDim == 1
\* How far randomize's bounds go below 0 and beyond width or height.
ArgSlack == 1
\* Largest width or height of an engine of StepSpec and DissolveSpec.
StepMaxDim == 3
\* Largest number of cells of an engine of StepSpec.
StepMaxCells == 9
\* Largest number of cells of an engine of DissolveSpec.
DissolveMaxCells == 6
\* The last reading of the page's clock, in ticks.
MaxTime == 2
\* config.timeBeforeDecay, in ticks of the page's clock.
timeBeforeDecay == 1
\* config.randomizationHeight, in rows of the page's grid.
randomizationHeight == 1
\* Most Render callbacks waiting for an animation frame at once.
MaxFrames == 1
\* Most Render invocations let past the in-flight guard at once.
MaxInFlight == 2

----------------------------------------------------------------------------
(* Values *)

\* What JavaScript yields for a missing array element, and Number + undefined.
\* Both are outside the naturals, so no cell value or sum equals them.
Undefined == -1
NaN == -2

\* A number the caller may put in a cell that is neither 0 nor 1.
NonBinary == 2

\* Math.random() is in [0,1): the least draw and one just below 1.
Draws == {0, 999}

\* randomize's threshold, `Math.random() > 0.5`.
RandomizeThreshold == 500
\* step's default dissolveChance, 0.2.
DefaultDissolveChance == 200
\* The dissolveChance values of the model: 0.0, the default, 1.0.
DissolveChances == {0, DefaultDissolveChance, 1000}

Max(a, b) == IF a > b THEN a ELSE b
Min(a, b) == IF a < b THEN a ELSE b

Rows(h) == 0..(h - 1)
Cols(w) == 0..(w - 1)
\* The cells <<x, y>> of a grid.
Cells(w, h) == Cols(w) \X Rows(h)

\* Number + value: NaN once an operand is undefined or NaN.
Plus(a, b) == IF a = NaN \/ b = Undefined \/ b = NaN THEN NaN ELSE a + b

RECURSIVE SumCells(_, _)
\* The sum of f over the finite set S of cells.
SumCells(f, S) ==
    IF S = {} THEN 0
    ELSE LET c == CHOOSE c \in S : TRUE
         IN  f[c[2]][c[1]] + SumCells(f, S \ {c})

----------------------------------------------------------------------------
(* GameOfLife *)

\* #neighbors without the diagonal offsets.
neighborsOrthogonal == << <<0, -1>>, <<-1, 0>>, <<1, 0>>, <<0, 1>> >>

\* static #neighbors
neighbors ==
    << <<-1, -1>>, <<0, -1>>, <<1, -1>>,
       <<-1, 0>>,             <<1, 0>>,
       <<-1, 1>>,  <<0, 1>>,  <<1, 1>> >>

\* CreateEmptyArray with width and height taken for each other.
CreateEmptyArrayTransposed(w, h) == [y \in Rows(w) |-> [x \in Cols(h) |-> 0]]

\* static #CreateEmptyArray(width, height)
CreateEmptyArray(w, h) == [y \in Rows(h) |-> [x \in Cols(w) |-> 0]]

\* `new Array(n)` throws a RangeError for a negative n: new Array(height), then
\* new Array(width) once per row.
CreateEmptyArrayThrows(w, h) == h < 0 \/ (h > 0 /\ w < 0)

\* The start bound without its Math.max.
ClampStartNone(s) == s

\* randomize: the bounds after Math.max / Math.min.
ClampStart(s) == Max(s, 0)
ClampEnd(d, n) == Min(d, n)

\* randomize: the cells <<i, j>> its two loops visit.
RandomizeCells(sx, sy, dx, dy, w, h) ==
    { c \in (ClampStart(sx)..(ClampEnd(dx, w) - 1))
              \X (ClampStart(sy)..(ClampEnd(dy, h) - 1)) : TRUE }

\* randomize: `Math.random() > 0.5 ? 1 : 0`.
RandomValue(draw) == IF draw > RandomizeThreshold THEN 1 ELSE 0

\* randomize: the active buffer after the loops, rnd the draw of each visited cell.
RandomizeBuffer(current, w, h, touched, rnd) ==
    [y \in Rows(h) |-> [x \in Cols(w) |->
        IF <<x, y>> \in touched THEN RandomValue(rnd[<<x, y>>]) ELSE current[y][x]]]

\* randomize adding 1 to #count for every cell it assigns.
RandomizeCountCells(touched, rnd) == Cardinality(touched)

\* randomize: #count is set to 0 and each assigned value is added to it.
RECURSIVE RandomizeCount(_, _)
RandomizeCount(touched, rnd) ==
    IF touched = {} THEN 0
    ELSE LET c == CHOOSE c \in touched : TRUE
         IN  RandomValue(rnd[c]) + RandomizeCount(touched \ {c}, rnd)

\* step: the sum of the in-grid neighbours' values.
RECURSIVE neighborsCountFrom(_, _, _, _, _, _)
neighborsCountFrom(k, current, x, y, w, h) ==
    IF k > Len(neighbors) THEN 0
    ELSE LET nx == x + neighbors[k][1]
             ny == y + neighbors[k][2]
             rest == neighborsCountFrom(k + 1, current, x, y, w, h)
         IN  IF nx < 0 \/ nx >= w \/ ny < 0 \/ ny >= h
             THEN rest
             ELSE Plus(rest, current[ny][nx])

neighborsCount(current, x, y, w, h) == neighborsCountFrom(1, current, x, y, w, h)

\* NextCell with a live cell staying live on 2 neighbours or more.
NextCellNoOvercrowding(current, x, y, w, h) ==
    LET n == neighborsCount(current, x, y, w, h)
    IN  IF current[y][x] = 0 /\ n = 3 THEN 1
        ELSE IF current[y][x] = 1 /\ n >= 2 THEN 1
        ELSE 0

\* step: the value written to next[y][x] before the dissolve.
NextCell(current, x, y, w, h) ==
    LET n == neighborsCount(current, x, y, w, h)
    IN  IF current[y][x] = 0 /\ n = 3 THEN 1
        ELSE IF current[y][x] = 1 /\ (n = 3 \/ n = 2) THEN 1
        ELSE 0

\* step: the next generation before the dissolve.
NextGeneration(current, w, h) ==
    [y \in Rows(h) |-> [x \in Cols(w) |-> NextCell(current, x, y, w, h)]]

\* Dissolves with the comparison turned round, and with <= for <.
DissolvesAbove(dissolve, draw, dissolveChance) == dissolve /\ draw > dissolveChance
DissolvesAtMost(dissolve, draw, dissolveChance) == dissolve /\ draw <= dissolveChance

\* step: `dissolve && Math.random() < dissolveChance`; no draw is made unless
\* dissolve is set.
Dissolves(dissolve, draw, dissolveChance) == dissolve /\ draw < dissolveChance

\* step: the cells whose draw can change the next buffer, those the next
\* generation leaves alive (a draw is made for a dead cell too, and writes 0
\* over its 0).
DrawnCells(current, w, h) ==
    {c \in Cells(w, h) : NextCell(current, c[1], c[2], w, h) # 0}

\* step: the next buffer, rnd the draws of the cells left alive.
DissolveBuffer(next, w, h, dissolve, dissolveChance, rnd) ==
    [y \in Rows(h) |-> [x \in Cols(w) |->
        IF next[y][x] # 0 /\ Dissolves(dissolve, rnd[<<x, y>>], dissolveChance)
        THEN 0 ELSE next[y][x]]]

\* step without the reset of #count.
StepCountKeep(c) == c

\* step: `this.#count = 0` before the loops.
StepCountStart(c) == 0

\* step computing the next generation from the buffer it is about to write.
stepFromNext(arrs, idx, cnt, w, h, dissolve, dissolveChance, rnd) ==
    LET next == DissolveBuffer(NextGeneration(arrs[1 - idx], w, h), w, h,
                               dissolve, dissolveChance, rnd)
    IN  [arrays |-> [arrs EXCEPT ![1 - idx] = next],
         index |-> 1 - idx,
         count |-> StepCountStart(cnt) + SumCells(next, Cells(w, h))]

\* step writing the next generation over the active buffer, #index kept.
stepInPlace(arrs, idx, cnt, w, h, dissolve, dissolveChance, rnd) ==
    LET next == DissolveBuffer(NextGeneration(arrs[idx], w, h), w, h,
                               dissolve, dissolveChance, rnd)
    IN  [arrays |-> [arrs EXCEPT ![idx] = next],
         index |-> idx,
         count |-> StepCountStart(cnt) + SumCells(next, Cells(w, h))]

\* step: the engine's #arrays, #index and #count when it returns, rnd the draw
\* of each cell.
step(arrs, idx, cnt, w, h, dissolve, dissolveChance, rnd) ==
    LET next == DissolveBuffer(NextGeneration(arrs[idx], w, h), w, h,
                               dissolve, dissolveChance, rnd)
    IN  [arrays |-> [arrs EXCEPT ![1 - idx] = next],
         index |-> 1 - idx,
         count |-> StepCountStart(cnt) + SumCells(next, Cells(w, h))]

\* setArray(array): the number of rows copied before `array[y][x]` throws on a
\* missing row (it is read only when the row has a cell to copy).
SetArrayThrows(array, w, h) == w > 0 /\ Len(array) < h
SetArrayRows(array, w, h) == IF SetArrayThrows(array, w, h) THEN Len(array) ELSE h

\* setArray reading array[x][y].
InputCellTransposed(array, x, y) ==
    IF x + 1 <= Len(array) /\ y + 1 <= Len(array[x + 1])
    THEN array[x + 1][y + 1] ELSE Undefined

\* setArray: array[y][x], undefined beyond the row's end.
InputCell(array, x, y) ==
    IF x + 1 <= Len(array[y + 1]) THEN array[y + 1][x + 1] ELSE Undefined

\* setArray: the active buffer when the call ends (returns or throws).
SetArrayBuffer(current, array, w, h) ==
    [y \in Rows(h) |-> [x \in Cols(w) |->
        IF y < SetArrayRows(array, w, h) THEN InputCell(array, x, y) ELSE current[y][x]]]

----------------------------------------------------------------------------
(* The calls *)

\* The record of a call: op is the method, threw the error it ended with
\* ("none" when it returned); the other fields are its arguments, at their
\* defaults when the method has no such argument.
Call(op, threw) ==
    [op |-> op, threw |-> threw,
     width |-> 0, height |-> 0, randomize |-> FALSE,
     sx |-> 0, sy |-> 0, dx |-> 0, dy |-> 0,
     dissolve |-> FALSE, dissolveChance |-> 0,
     array |-> <<>>]

\* The engine before `new GameOfLife(...)`.
NoEngine ==
    /\ constructed = FALSE
    /\ width = 0
    /\ height = 0
    /\ arrays = [i \in 0..1 |-> <<>>]
    /\ index = 0
    /\ count = 0

\* The draws of the cells in S.
Rnds(S) == [S -> Draws]

\* constructor(width, height, randomize)
NewGameOfLife(w, h, randomize) ==
    /\ ~constructed
    /\ IF CreateEmptyArrayThrows(w, h)
       THEN /\ last' = [Call("new", "RangeError") EXCEPT
                            !.width = w, !.height = h, !.randomize = randomize]
            /\ UNCHANGED <<engine, stepsMod2>>
       ELSE /\ constructed' = TRUE
            /\ stepsMod2' = 0
            /\ width' = w
            /\ height' = h
            /\ index' = 0
            /\ last' = [Call("new", "none") EXCEPT
                            !.width = w, !.height = h, !.randomize = randomize]
            /\ LET empty == [i \in 0..1 |-> CreateEmptyArray(w, h)]
                    touched == RandomizeCells(0, 0, w, h, w, h)
               IN  IF randomize
                   THEN \E rnd \in Rnds(touched) :
                            /\ arrays' = [empty EXCEPT ![0] =
                                    RandomizeBuffer(empty[0], w, h, touched, rnd)]
                            /\ count' = RandomizeCount(touched, rnd)
                   ELSE /\ arrays' = empty
                        /\ count' = 0

\* randomize(sx, sy, dx, dy)
Randomize(sx, sy, dx, dy) ==
    /\ constructed
    /\ LET touched == RandomizeCells(sx, sy, dx, dy, width, height)
       IN  \E rnd \in Rnds(touched) :
               /\ arrays' = [arrays EXCEPT ![index] =
                       RandomizeBuffer(arrays[index], width, height, touched, rnd)]
               /\ count' = RandomizeCount(touched, rnd)
    /\ last' = [Call("randomize", "none") EXCEPT
                    !.sx = sx, !.sy = sy, !.dx = dx, !.dy = dy]
    /\ UNCHANGED <<constructed, width, height, index, stepsMod2>>

\* step(dissolve, dissolveChance)
Step(dissolve, dissolveChance) ==
    /\ constructed
    /\ \E rnd \in Rnds(IF dissolve
                        THEN DrawnCells(arrays[index], width, height)
                        ELSE {}) :
           \E r \in {step(arrays, index, count, width, height,
                         dissolve, dissolveChance, rnd)} :
               /\ arrays' = r.arrays
               /\ index' = r.index
               /\ count' = r.count
    /\ last' = [Call("step", "none") EXCEPT
                    !.dissolve = dissolve, !.dissolveChance = dissolveChance]
    /\ stepsMod2' = (stepsMod2 + 1) % 2
    /\ UNCHANGED <<constructed, width, height>>

\* setArray(array)
SetArray(array) ==
    /\ constructed
    /\ arrays' = [arrays EXCEPT ![index] =
                      SetArrayBuffer(arrays[index], array, width, height)]
    /\ last' = [Call("setArray",
                     IF SetArrayThrows(array, width, height)
                     THEN "TypeError" ELSE "none") EXCEPT !.array = array]
    /\ UNCHANGED <<constructed, width, height, index, count, stepsMod2>>

----------------------------------------------------------------------------
(* The page: onWidgetLoad, onEventReceived, Render and its callbacks.      *)
(* Each handler runs to completion; Render is suspended once, at           *)
(* `await createImageBitmap`.  Timers and animation frames fire at any     *)
(* later moment.                                                           *)

\* config.width and config.height as the field data set them.
WidgetSizes == {<<1, 1>>, <<1, 2>>, <<2, 1>>}

\* A handler's record: whether the event had detail.event.name, what
\* VerifyStreamElementsEvent made of it, and how far Render got.
Handled(handler) ==
    [handler |-> handler, named |-> FALSE, usable |-> "none", render |-> "none"]

\* The globals before onWidgetLoad.
NotLoaded ==
    /\ hasInit = FALSE
    /\ isRendering = FALSE
    /\ lastEventTime = Undefined
    /\ idleSince = Undefined
    /\ now = 0
    /\ awaiting = 0
    /\ timeouts = 0
    /\ frames = 0
    /\ canvas = "clear"
    /\ did = Handled("none")

\* `if (isRendering) return;`
InFlightNever(flag) == FALSE
InFlight(flag) == flag

\* `isRendering = false;` of the exit on an empty grid
EmptyExitFlagKept == TRUE
EmptyExitFlag == FALSE

\* How far a call of Render gets when gol.count is cnt: it returns at the
\* guard, returns on the empty grid, or suspends at the await.
RenderOutcome(cnt) ==
    IF InFlight(isRendering) THEN "guard"
    ELSE IF cnt = 0 THEN "empty"
    ELSE "await"

\* Render() as the older version of the widget has it: the flag is tested and
\* cleared but never set on entry
RenderUnflagged(cnt) ==
    LET outcome == IF isRendering \/ cnt = 0 THEN "empty" ELSE "await"
    IN  /\ outcome = "await" => awaiting + timeouts < MaxInFlight
        /\ isRendering' = FALSE
        /\ canvas' = IF outcome = "empty" THEN "clear" ELSE canvas
        /\ awaiting' = IF outcome = "await" THEN awaiting + 1 ELSE awaiting

\* Render(), up to its return or its await
Render(cnt) ==
    LET outcome == RenderOutcome(cnt)
    IN  /\ outcome = "await" => awaiting + timeouts < MaxInFlight
        /\ isRendering' = CASE outcome = "guard" -> isRendering
                            [] outcome = "empty" -> EmptyExitFlag
                            [] OTHER -> TRUE
        /\ canvas' = IF outcome = "empty" THEN "clear" ELSE canvas
        /\ awaiting' = IF outcome = "await" THEN awaiting + 1 ELSE awaiting

\* onWidgetLoad(widgetLoadEvent), with field data setting width and height
onWidgetLoad(w, h) ==
    /\ ~hasInit
    /\ hasInit' = TRUE
    /\ NewGameOfLife(w, h, FALSE)
    /\ lastEventTime' = now
    /\ idleSince' = now
    /\ Render(count')
    /\ did' = [Handled("onWidgetLoad") EXCEPT !.render = RenderOutcome(count')]
    /\ UNCHANGED <<now, timeouts, frames>>

\* VerifyStreamElementsEvent(potentialEvent), for a payload that has or
\* lacks detail.event.name, a string detail.listener, detail.event.itemId
VerifyStreamElementsEvent(name, listener, itemId) ==
    IF ~name THEN "undefined"
    ELSE IF ~itemId /\ ~listener THEN "TypeError"
    ELSE "event"

\* onEventReceived(streamElementsEvent)
onEventReceived(name, listener, itemId) ==
    LET event == VerifyStreamElementsEvent(name, listener, itemId)
    IN  /\ hasInit
        /\ IF event = "event"
           THEN /\ lastEventTime' = now
                /\ idleSince' = now
                /\ Randomize(0, height - randomizationHeight, width, height)
                /\ IF ~isRendering
                   THEN Render(count')
                   ELSE UNCHANGED <<isRendering, canvas, awaiting>>
                /\ did' = [Handled("onEventReceived") EXCEPT
                               !.named = name, !.usable = event,
                               !.render = IF ~isRendering
                                          THEN RenderOutcome(count')
                                          ELSE "none"]
           ELSE /\ did' = [Handled("onEventReceived") EXCEPT
                               !.named = name, !.usable = event]
                /\ UNCHANGED <<engine, last, stepsMod2, lastEventTime,
                               idleSince, isRendering, canvas, awaiting>>
        /\ UNCHANGED <<hasInit, now, timeouts, frames>>

\* The callback of requestAnimationFrame(Render)
AnimationFrame ==
    /\ frames > 0
    /\ frames' = frames - 1
    /\ Render(count)
    /\ did' = [Handled("requestAnimationFrame") EXCEPT
                   !.render = RenderOutcome(count)]
    /\ UNCHANGED <<engine, last, stepsMod2, hasInit, lastEventTime,
                   idleSince, now, timeouts>>

\* `new Date().getTime() - lastEventTime.getTime() > config.timeBeforeDecay * 1000`
DissolveDueAt(t, lastT) == t - lastT >= timeBeforeDecay
DissolveDue(t, lastT) == t - lastT > timeBeforeDecay

\* Render() from the await on, the bitmap made
BitmapResolved ==
    /\ awaiting > 0
    /\ awaiting' = awaiting - 1
    /\ canvas' = "drawn"
    /\ Step(DissolveDue(now, lastEventTime), DefaultDissolveChance)
    /\ timeouts' = timeouts + 1
    /\ did' = [Handled("createImageBitmap") EXCEPT !.render = "step"]
    /\ UNCHANGED <<hasInit, isRendering, lastEventTime, idleSince, now, frames>>

\* The failure handled without the reset of the flag in the catch block
BitmapRejectedFlagKept ==
    /\ awaiting > 0
    /\ awaiting' = awaiting - 1
    /\ did' = [Handled("createImageBitmap") EXCEPT !.render = "catch"]
    /\ UNCHANGED <<engine, last, stepsMod2, hasInit, isRendering,
                   lastEventTime, idleSince, now, timeouts, frames, canvas>>

\* Render() from the await on, createImageBitmap having failed
BitmapRejected ==
    /\ awaiting > 0
    /\ awaiting' = awaiting - 1
    /\ isRendering' = FALSE
    /\ did' = [Handled("createImageBitmap") EXCEPT !.render = "catch"]
    /\ UNCHANGED <<engine, last, stepsMod2, hasInit, lastEventTime,
                   idleSince, now, timeouts, frames, canvas>>

\* The callback given to setTimeout
Timeout ==
    /\ timeouts > 0
    /\ frames < MaxFrames
    /\ timeouts' = timeouts - 1
    /\ isRendering' = FALSE
    /\ frames' = frames + 1
    /\ did' = Handled("setTimeout")
    /\ UNCHANGED <<engine, last, stepsMod2, hasInit, lastEventTime,
                   idleSince, now, awaiting, canvas>>

\* The clock moves on.
Tick ==
    /\ now < MaxTime
    /\ now' = now + 1
    /\ UNCHANGED <<engine, last, stepsMod2, hasInit, isRendering,
                   lastEventTime, idleSince, awaiting, timeouts, frames,
                   canvas, did>>

----------------------------------------------------------------------------
(* Spec: an engine from its construction on, under any sequence of calls *)

\* The widths and heights given to the constructor.
DimArgs == (0 - NegDim)..MaxDim

\* All arrays of rows rows by cols cells with the cells in V.
ArraysOf(rows, cols, V) == [1..rows -> [1..cols -> V]]

\* The arrays given to setArray for a w by h engine: every binary array of the
\* engine's shape, one of that shape holding another number, and an all-ones
\* array with one row or one column fewer or more.
SetArrayArgs(w, h) ==
    ArraysOf(h, w, {0, 1})
    \cup ArraysOf(h, w, {NonBinary})
    \cup UNION { ArraysOf(r, w, {1}) : r \in {n \in {h - 1, h + 1} : n >= 0} }
    \cup UNION { ArraysOf(h, c, {1}) : c \in {n \in {w - 1, w + 1} : n >= 0} }

Init ==
    /\ NoEngine
    /\ last = Call("none", "none")
    /\ stepsMod2 = 0
    /\ NotLoaded

\* `new GameOfLife(w, h, randomize)`
Construct ==
    \E w \in DimArgs, h \in DimArgs, randomize \in BOOLEAN :
        /\ w * h <= MaxCells
        /\ NewGameOfLife(w, h, randomize)
        /\ UNCHANGED widget

\* `gol.randomize(0, gol.height - config.randomizationHeight, gol.width,
\* gol.height)`, the call of onEventReceived, for a randomizationHeight rh.
RandomizeBottom ==
    /\ \E rh \in 1..MaxDim : Randomize(0, height - rh, width, height)
    /\ UNCHANGED widget

\* `gol.step(dissolve)`, the call of Render
StepCall ==
    /\ \E dissolve \in BOOLEAN : Step(dissolve, DefaultDissolveChance)
    /\ UNCHANGED widget

\* `gol.setArray(array)`
SetArrayCall ==
    /\ \E array \in SetArrayArgs(width, height) : SetArray(array)
    /\ UNCHANGED widget

Next ==
    \/ Construct
    \/ RandomizeBottom
    \/ StepCall
    \/ SetArrayCall

Spec == Init /\ [][Next]_vars

----------------------------------------------------------------------------
(* The engine `new GameOfLife(w, h, true)` returns, for positive w and h *)

InitRandomized(maxDim, maxCells) ==
    /\ constructed = TRUE
    /\ width \in 1..maxDim
    /\ height \in 1..maxDim
    /\ width * height <= maxCells
    /\ index = 0
    /\ \E rnd \in Rnds(RandomizeCells(0, 0, width, height, width, height)) :
           LET touched == RandomizeCells(0, 0, width, height, width, height)
               empty == CreateEmptyArray(width, height)
           IN  /\ arrays = [i \in 0..1 |->
                       IF i = 0
                       THEN RandomizeBuffer(empty, width, height, touched, rnd)
                       ELSE empty]
               /\ count = RandomizeCount(touched, rnd)
    /\ last = [Call("new", "none") EXCEPT
                   !.width = width, !.height = height, !.randomize = TRUE]
    /\ stepsMod2 = 0
    /\ NotLoaded

----------------------------------------------------------------------------
(* StepSpec: the generations of a randomized engine of up to StepMaxCells  *)
(* cells, stepped without dissolve                                         *)

StepInit == InitRandomized(StepMaxDim, StepMaxCells)

\* `gol.step(false)`
StepPlain ==
    /\ Step(FALSE, DefaultDissolveChance)
    /\ UNCHANGED widget

StepSpec == StepInit /\ [][StepPlain]_vars

----------------------------------------------------------------------------
(* DissolveSpec: one step, with any dissolve arguments and any draws, of a *)
(* randomized engine of up to DissolveMaxCells cells                       *)

DissolveInit == InitRandomized(StepMaxDim, DissolveMaxCells)

\* `gol.step(dissolve, dissolveChance)`
DissolveOnce ==
    /\ last.op = "new"
    /\ \E dissolve \in BOOLEAN, dissolveChance \in DissolveChances :
           Step(dissolve, dissolveChance)
    /\ UNCHANGED widget

DissolveSpec == DissolveInit /\ [][DissolveOnce]_vars

----------------------------------------------------------------------------
(* RandomizeSpec: one randomize, with any bounds, of a randomized engine   *)
(* that has made at most one step                                          *)

RandomizeInit == InitRandomized(MaxDim, MaxCells)

StepFirst ==
    /\ last.op = "new"
    /\ Step(FALSE, DefaultDissolveChance)
    /\ UNCHANGED widget

\* The bounds given to randomize along an axis of n cells.
BoundArgs(n) == (0 - ArgSlack)..(n + ArgSlack)

RandomizeOnce ==
    /\ last.op \in {"new", "step"}
    /\ \E sx \in BoundArgs(width), dx \in BoundArgs(width),
          sy \in BoundArgs(height), dy \in BoundArgs(height) :
           Randomize(sx, sy, dx, dy)
    /\ UNCHANGED widget

RandomizeNext ==
    \/ StepFirst
    \/ RandomizeOnce

RandomizeSpec == RandomizeInit /\ [][RandomizeNext]_vars

----------------------------------------------------------------------------
(* WidgetSpec: the page from before onWidgetLoad on, under any events and  *)
(* any order of the pending callbacks                                      *)

Load == \E size \in WidgetSizes : onWidgetLoad(size[1], size[2])

Event ==
    \E name \in BOOLEAN, listener \in BOOLEAN, itemId \in BOOLEAN :
        onEventReceived(name, listener, itemId)

WidgetNext ==
    \/ Load
    \/ Event
    \/ AnimationFrame
    \/ BitmapResolved
    \/ BitmapRejected
    \/ Timeout
    \/ Tick

WidgetSpec == Init /\ [][WidgetNext]_vars

----------------------------------------------------------------------------
(* LoopSpec: the render loop of a page three cells wide and two high, the  *)
(* smallest grid on which a step bears a cell above the randomized rows.   *)
(* Every event is usable and comes while the decay time can still pass on  *)
(* the clock; bitmaps are always made.  Pending callbacks run in the end,  *)
(* the clock moves on, and a step that may dissolve cells again and again  *)
(* dissolves all of them in the end.                                       *)

LoopSize == <<3, 2>>

LoopLoad == onWidgetLoad(LoopSize[1], LoopSize[2])

\* No event comes from now on.
Quiet == now + timeBeforeDecay >= MaxTime

LoopEvent ==
    /\ ~Quiet
    /\ onEventReceived(TRUE, TRUE, FALSE)

\* A step of Render that leaves no live cell.
DissolvedAll ==
    /\ BitmapResolved
    /\ count' = 0

LoopNext ==
    \/ LoopLoad
    \/ LoopEvent
    \/ AnimationFrame
    \/ BitmapResolved
    \/ Timeout
    \/ Tick

LoopSpec ==
    /\ Init
    /\ [][LoopNext]_vars
    /\ WF_vars(AnimationFrame)
    /\ WF_vars(BitmapResolved)
    /\ WF_vars(Timeout)
    /\ WF_vars(Tick)
    /\ SF_vars(DissolvedAll)

----------------------------------------------------------------------------
(* What the claims speak of, stated apart from the operators above *)

Active == arrays[index]
Inactive == arrays[1 - index]
Grid == Cells(width, height)

\* The number of cells of buf that are exactly 1.
LiveCells(buf) == Cardinality({c \in Grid : buf[c[2]][c[1]] = 1})

\* The number of cells around <<x, y>>, inside the grid, that are exactly 1.
LiveNeighbours(buf, x, y) ==
    Cardinality({c \in Grid :
        /\ c # <<x, y>>
        /\ c[1] - x \in {-1, 0, 1}
        /\ c[2] - y \in {-1, 0, 1}
        /\ buf[c[2]][c[1]] = 1})

\* Conway's rule for the cell <<x, y>> of buf.
Conway(buf, x, y) ==
    IF LiveNeighbours(buf, x, y) = 3
       \/ (buf[y][x] = 1 /\ LiveNeighbours(buf, x, y) = 2)
    THEN 1 ELSE 0

\* buf has h rows of w cells.
HasShape(buf, w, h) ==
    /\ DOMAIN buf = Rows(h)
    /\ \A y \in Rows(h) : DOMAIN buf[y] = Cols(w)

----------------------------------------------------------------------------
(* C1 *)

\* C1 (the claim as stated; the code contradicts it): after every randomize
\* call, count is the number of 1-valued cells of the whole active buffer.
C1_RandomizeCountsWholeBuffer ==
    last.op = "randomize" => count = LiveCells(Active)

----------------------------------------------------------------------------
(* C2 *)

\* C2: after every step, with or without dissolve and whatever count was
\* before, count is the number of 1-valued cells of the new active buffer.
C2_StepCountIsLiveCells ==
    last.op = "step" => count = LiveCells(Active)

\* A dissolving step that left live cells, fewer than the generation before.
C2_Witness ==
    /\ last.op = "step"
    /\ last.dissolve
    /\ count >= 2
    /\ LiveCells(Inactive) > count

----------------------------------------------------------------------------
(* C3 *)

\* C3: a step without dissolve of a binary grid writes, for every cell, 1 iff
\* the cell had exactly 3 live neighbours inside the grid, or was 1 and had
\* exactly 2, else 0; a 1x1 grid steps to 0.  (The buffer that was active
\* before the step is the inactive one after it.)
C3_StepIsConway ==
    (last.op = "step" /\ ~last.dissolve) =>
        /\ \A c \in Grid : Active[c[2]][c[1]] = Conway(Inactive, c[1], c[2])
        /\ (width = 1 /\ height = 1) => Active[0][0] = 0

\* A step in which one cell was born, one survived on 2 neighbours, and one
\* died of 4 or more.
C3_Witness ==
    /\ last.op = "step"
    /\ ~last.dissolve
    /\ \E c \in Grid : Inactive[c[2]][c[1]] = 0 /\ Active[c[2]][c[1]] = 1
    /\ \E c \in Grid :
           /\ Inactive[c[2]][c[1]] = 1
           /\ LiveNeighbours(Inactive, c[1], c[2]) = 2
           /\ Active[c[2]][c[1]] = 1
    /\ \E c \in Grid :
           /\ Inactive[c[2]][c[1]] = 1
           /\ LiveNeighbours(Inactive, c[1], c[2]) >= 4
           /\ Active[c[2]][c[1]] = 0

----------------------------------------------------------------------------
(* C4 *)

\* The cells the claim allows randomize(sx, sy, dx, dy) to write.
ClaimedRegion(sx, sy, dx, dy) ==
    {c \in Grid :
        /\ Max(sx, 0) <= c[1] /\ c[1] < Min(dx, width)
        /\ Max(sy, 0) <= c[2] /\ c[2] < Min(dy, height)}

\* C4: randomize with any integer bounds changes no cell of the active buffer
\* outside max(sx,0) <= x < min(dx,width), max(sy,0) <= y < min(dy,height),
\* nothing of the inactive buffer and not the index, and its loops visit no
\* index outside the grid.
C4_RandomizeFrame ==
    [][last'.op = "randomize" =>
        /\ \A c \in Grid \ ClaimedRegion(last'.sx, last'.sy, last'.dx, last'.dy) :
               arrays'[index][c[2]][c[1]] = arrays[index][c[2]][c[1]]
        /\ arrays'[1 - index] = arrays[1 - index]
        /\ index' = index
        /\ HasShape(arrays'[index], width, height)
        /\ RandomizeCells(last'.sx, last'.sy, last'.dx, last'.dy, width, height)
               \subseteq Grid
      ]_vars

\* A randomize with a negative left bound and a bottom bound beyond the height,
\* of the second row on, after a step: the first row keeps its live cells.
C4_Witness ==
    /\ last.op = "randomize"
    /\ last.sx < 0
    /\ last.dy > height
    /\ last.sy = 1
    /\ last.dx > last.sx
    /\ height > 1
    /\ index = 1
    /\ \E x \in Cols(width) : Active[0][x] = 1
    /\ \E x \in Cols(width) : Active[1][x] # Inactive[1][x]

\* A randomize whose left bound is not below its right bound: nothing written.
C4_WitnessEmpty ==
    /\ last.op = "randomize"
    /\ last.sx >= last.dx
    /\ last.sy < last.dy

----------------------------------------------------------------------------
(* C5 *)

\* C5 (the claim as stated; the code contradicts it): every cell of both
\* buffers is 0 or 1 in every reachable state.
C5_CellsBinary ==
    \A i \in 0..1 : \A c \in Grid : arrays[i][c[2]][c[1]] \in {0, 1}

----------------------------------------------------------------------------
(* C6 *)

\* C6: the constructor with positive width and height and randomize = false
\* returns an engine of two buffers of height rows by width cells, all 0, with
\* index 0 and count 0.
C6_ConstructEmpty ==
    (last.op = "new" /\ ~last.randomize /\ last.width > 0 /\ last.height > 0) =>
        /\ last.threw = "none"
        /\ constructed
        /\ width = last.width
        /\ height = last.height
        /\ \A i \in 0..1 :
               /\ HasShape(arrays[i], last.width, last.height)
               /\ \A c \in Cells(last.width, last.height) : arrays[i][c[2]][c[1]] = 0
        /\ index = 0
        /\ count = 0

\* `new GameOfLife(2, 1, false)` has returned.
C6_Witness ==
    /\ last.op = "new"
    /\ ~last.randomize
    /\ last.width = 2
    /\ last.height = 1
    /\ constructed

----------------------------------------------------------------------------
(* C7 *)

\* array has not exactly h rows of exactly w cells.
ShapeDiffers(array, w, h) ==
    Len(array) # h \/ \E y \in 1..Len(array) : Len(array[y]) # w

\* C7 (the claim as stated, for an engine of positive width and height; the
\* code contradicts it): setArray with an array whose row or column count
\* differs from the engine's ends in an error (here: any error) and leaves
\* the active buffer as it was.
C7_SetArrayShapeMismatch ==
    [][(/\ last'.op = "setArray"
        /\ width > 0 /\ height > 0
        /\ ShapeDiffers(last'.array, width, height)) =>
        /\ last'.threw # "none"
        /\ arrays'[index] = arrays[index]
      ]_vars

----------------------------------------------------------------------------
(* C8 *)

\* C8 (the claim as stated; the code contradicts it): the constructor with a
\* width or height of 0 or less ends in an error (here: any error) and
\* returns no engine.
C8_ConstructInvalidDimension ==
    (last.op = "new" /\ (last.width <= 0 \/ last.height <= 0)) =>
        /\ last.threw # "none"
        /\ ~constructed

----------------------------------------------------------------------------
(* C9 *)

\* C9: a step with dissolve = true and dissolveChance = 1.0 leaves every cell
\* of the new active buffer 0 and count 0, whatever the draws.
C9_DissolveAll ==
    (last.op = "step" /\ last.dissolve /\ last.dissolveChance = 1000) =>
        /\ \A c \in Grid : Active[c[2]][c[1]] = 0
        /\ count = 0

\* Such a step forced to 0 a live cell with 3 live neighbours.
C9_Witness ==
    /\ last.op = "step"
    /\ last.dissolve
    /\ last.dissolveChance = 1000
    /\ \E c \in Grid :
           /\ Inactive[c[2]][c[1]] = 1
           /\ LiveNeighbours(Inactive, c[1], c[2]) = 3
           /\ Active[c[2]][c[1]] = 0

----------------------------------------------------------------------------
(* C10 *)

\* What step(false) makes of the engine.
PlainStep ==
    step(arrays, index, count, width, height, FALSE, DefaultDissolveChance, <<>>)

\* C10: a step with dissolve = true and dissolveChance = 0.0 ends, whatever
\* the draws, in the buffers, index and count of a step with dissolve = false.
C10_DissolveNone ==
    [][(last'.op = "step" /\ last'.dissolve /\ last'.dissolveChance = 0) =>
        [arrays |-> arrays', index |-> index', count |-> count'] = PlainStep
      ]_vars

\* Such a step kept live cells.
C10_Witness ==
    /\ last.op = "step"
    /\ last.dissolve
    /\ last.dissolveChance = 0
    /\ LiveCells(Active) >= 3

----------------------------------------------------------------------------
(* C11 *)

\* C11: every step flips index, leaves in every cell of the buffer that was
\* inactive a 0 or a 1 it has written, and leaves the buffer that was active
\* as it was; randomize and setArray keep index; so index is the number of
\* steps made since construction, modulo 2.
C11_StepFlipsIndex ==
    [][/\ last'.op = "step" =>
            /\ index' = 1 - index
            /\ arrays'[index] = arrays[index]
            /\ HasShape(arrays'[1 - index], width, height)
            /\ \A c \in Grid : arrays'[1 - index][c[2]][c[1]] \in {0, 1}
       /\ last'.op \in {"randomize", "setArray"} => index' = index
       /\ constructed' => index' = stepsMod2'
      ]_vars

\* An even number of steps, two at least, the last one from a buffer that
\* differs from the one it wrote.
C11_Witness ==
    /\ last.op = "step"
    /\ stepsMod2 = 0
    /\ LiveCells(Active) >= 3
    /\ Active # Inactive

----------------------------------------------------------------------------
(* C12 *)

\* Buffers of the engine's shape to stand in for the inactive one.
OtherBuffers ==
    {[y \in Rows(height) |-> [x \in Cols(width) |-> v]] : v \in {0, 1}}

\* An engine of the same dimensions and active buffer, with the inactive
\* buffer other, the index idx and the count cnt.
OtherEngine(other, idx, cnt) ==
    [arrays |-> [i \in 0..1 |-> IF i = idx THEN Active ELSE other],
     index |-> idx,
     count |-> cnt]

\* C12: two engines of the same dimensions and active buffer, whatever their
\* inactive buffers, indexes and counts, have after a step with the same
\* dissolve argument and the same draws the same active buffer and count.
C12_StepReadsActiveOnly ==
    last.op = "new" =>
        \A dissolve \in BOOLEAN :
            \A rnd \in Rnds(IF dissolve THEN Grid ELSE {}) :
                LET a == step(arrays, index, count, width, height,
                              dissolve, DefaultDissolveChance, rnd)
                    active == a.arrays[a.index]
                IN  \A other \in OtherBuffers :
                        LET e == OtherEngine(other, 1 - index, count + 1)
                            b == step(e.arrays, e.index, e.count, width, height,
                                      dissolve, DefaultDissolveChance, rnd)
                        IN  /\ active = b.arrays[b.index]
                            /\ a.count = b.count

\* An engine about to step whose next generation has live cells, while the
\* engines compared with it have other inactive buffers and counts.
C12_Witness ==
    /\ last.op = "new"
    /\ LiveCells(Active) >= 3
    /\ PlainStep.count >= 3
    /\ \E other \in OtherBuffers : other # Inactive

----------------------------------------------------------------------------
(* C13 *)

\* C13: setArray with an array of the engine's shape leaves in every active
\* cell the value of the array's cell at the same row and column, and leaves
\* count, index and the inactive buffer as they were; so count may differ
\* from the number of live cells of the active buffer afterwards.  (The
\* array is a value here, as the cells copied are numbers: nothing done to
\* the caller's array later reaches the engine.)
C13_SetArrayCopies ==
    [][(last'.op = "setArray" /\ ~ShapeDiffers(last'.array, width, height)) =>
        /\ \A c \in Grid :
               arrays'[index'][c[2]][c[1]] = last'.array[c[2] + 1][c[1] + 1]
        /\ count' = count
        /\ index' = index
        /\ arrays'[1 - index] = arrays[1 - index]
      ]_vars

\* After such a call with an array that reads differently by rows and by
\* columns, count is not the number of live cells.
C13_Witness ==
    /\ last.op = "setArray"
    /\ ~ShapeDiffers(last.array, width, height)
    /\ width = 2
    /\ height = 2
    /\ last.array[1][2] # last.array[2][1]
    /\ count # LiveCells(Active)

----------------------------------------------------------------------------
(* C14 *)

\* The blinker of a 3 by 3 grid: the cells (1,0), (1,1), (1,2), and the
\* cells (0,1), (1,1), (2,1).
VerticalBlinker == [y \in Rows(3) |-> [x \in Cols(3) |-> IF x = 1 THEN 1 ELSE 0]]
HorizontalBlinker == [y \in Rows(3) |-> [x \in Cols(3) |-> IF y = 1 THEN 1 ELSE 0]]

\* C14: a step without dissolve of a 3 by 3 engine holding exactly the
\* vertical blinker leaves exactly the horizontal blinker and count 3, and
\* the step after that leaves exactly the vertical blinker and count 3.
C14_Blinker ==
    (last.op = "step" /\ ~last.dissolve /\ width = 3 /\ height = 3) =>
        /\ Inactive = VerticalBlinker =>
               Active = HorizontalBlinker /\ count = 3
        /\ Inactive = HorizontalBlinker =>
               Active = VerticalBlinker /\ count = 3

\* The vertical blinker is back after an even number of steps.
C14_Witness ==
    /\ last.op = "step"
    /\ stepsMod2 = 0
    /\ Inactive = HorizontalBlinker
    /\ Active = VerticalBlinker
    /\ count = 3

----------------------------------------------------------------------------
(* C20 *)

\* C20: after randomize, count is the number of cells inside the clamped
\* region that hold 1, whatever the cells outside it hold; so for a region
\* smaller than the grid count can be below the number of live cells of the
\* active buffer, and 0 while live cells exist.
C20_RandomizeCountsRegion ==
    last.op = "randomize" =>
        count = Cardinality({c \in ClaimedRegion(last.sx, last.sy, last.dx, last.dy) :
                                 Active[c[2]][c[1]] = 1})

\* A randomize of some but not all cells that left count 0 and a live cell.
C20_Witness ==
    /\ last.op = "randomize"
    /\ ClaimedRegion(last.sx, last.sy, last.dx, last.dy) \notin {{}, Grid}
    /\ count = 0
    /\ LiveCells(Active) > 0

----------------------------------------------------------------------------
(* C15 *)

\* C15: every step Render makes is given dissolve = TRUE exactly when, at
\* the moment of the step, more than timeBeforeDecay has passed on the clock
\* since the widget loaded or last took an event as usable, whichever came
\* last, be it an event that came while Render awaited its bitmap.
C15_DissolveWhenIdle ==
    [][stepsMod2' # stepsMod2 =>
        /\ last'.op = "step"
        /\ last'.dissolve = (now - idleSince > timeBeforeDecay)
      ]_vars

\* Render has stepped with dissolve set: the grid had live cells, so an
\* event had come, and the clock has passed timeBeforeDecay since.
C15_Witness ==
    /\ did.render = "step"
    /\ last.op = "step"
    /\ last.dissolve
    /\ now - idleSince > timeBeforeDecay

----------------------------------------------------------------------------
(* C16 *)

\* C16 (the claim as stated; the code contradicts it): the handling of an
\* event that has detail.event.name sets lastEventTime to the clock's
\* reading, randomizes the bottom randomizationHeight rows over the full
\* width, and calls Render unless isRendering was set; the handling of an
\* event without it leaves lastEventTime, the buffers, count and
\* isRendering as they were.
C16_EventRandomizes ==
    [][(now' = now /\ did'.handler = "onEventReceived") =>
        IF did'.named
        THEN /\ lastEventTime' = now
             /\ last'.op = "randomize"
             /\ last'.sx = 0
             /\ last'.sy = height - randomizationHeight
             /\ last'.dx = width
             /\ last'.dy = height
             /\ ~isRendering => did'.render # "none"
        ELSE UNCHANGED <<lastEventTime, arrays, count, isRendering>>
      ]_vars

----------------------------------------------------------------------------
(* C18 *)

\* The Render invocations that have set isRendering and whose clearing of it
\* is still to come: those suspended at the await, and those whose timeout
\* callback is pending.
InGuardedSection == awaiting + timeouts

\* C18: under any order of events, bitmaps, timeouts and animation frames,
\* at most one Render invocation is between setting isRendering and clearing
\* it, and isRendering is set while one is; so no step is made while another
\* invocation is suspended there.
C18_OneRenderInFlight ==
    /\ InGuardedSection <= 1
    /\ InGuardedSection = 1 => isRendering
    /\ did.render = "step" => awaiting = 0

\* An animation-frame call of Render was turned away at the guard while an
\* invocation started by an event was suspended at the await.
C18_Witness ==
    /\ did.handler = "requestAnimationFrame"
    /\ did.render = "guard"
    /\ awaiting = 1

----------------------------------------------------------------------------
(* C19 *)

\* This transition is a handler that calls Render: an animation frame, the
\* widget's load, or an event taken as usable while isRendering is not set.
CallsRender ==
    /\ now' = now
    /\ \/ did'.handler \in {"requestAnimationFrame", "onWidgetLoad"}
       \/ did'.handler = "onEventReceived" /\ did'.usable = "event"

\* C19: a call of Render that finds isRendering unset and count 0 clears the
\* canvas and returns with isRendering unset, having made no step and
\* scheduled nothing: no bitmap awaited, no timeout, no animation frame.
C19_EmptyGridStops ==
    [][(CallsRender /\ ~isRendering /\ count' = 0) =>
        /\ canvas' = "clear"
        /\ isRendering' = FALSE
        /\ stepsMod2' = stepsMod2
        /\ index' = index
        /\ awaiting' = awaiting
        /\ timeouts' = timeouts
        /\ frames' <= frames
      ]_vars

\* The loop has stopped: the animation-frame call of Render after a step
\* found the grid empty, and no callback is left.
C19_Witness ==
    /\ did.handler = "requestAnimationFrame"
    /\ did.render = "empty"
    /\ last.op = "step"
    /\ canvas = "clear"
    /\ ~isRendering
    /\ awaiting + timeouts + frames = 0

----------------------------------------------------------------------------
(* C17 *)

\* A Render invocation is in flight or a callback that leads to one is
\* pending.
LoopRunning == isRendering \/ awaiting + timeouts + frames > 0

\* The loop has stopped on an empty grid.
StoppedEmpty ==
    /\ LiveCells(Active) = 0
    /\ count = 0
    /\ ~isRendering
    /\ awaiting + timeouts + frames = 0

\* C17 (the claim as stated; the code contradicts it): once no event comes
\* any more while the render loop is running, the active buffer has in the
\* end no live cell, count is 0 and the loop has stopped with isRendering
\* unset.  Only an event starts a stopped loop again, and only the loop's
\* steps change the buffer then, so the claim is stated in the form a finite
\* run can refute: when the running loop stops and no event is to come, it
\* stops on an empty grid.
C17_LoopEndsEmpty ==
    [][(Quiet /\ LoopRunning /\ ~LoopRunning') => StoppedEmpty']_vars

----------------------------------------------------------------------------
(* C21 *)

\* C21 (the claim as stated; the code contradicts it): whenever a call of
\* Render has taken the empty-grid exit, whatever events came while the loop
\* ran, the active buffer holds no live cell.
C21_EmptyExitMeansEmpty ==
    did.render = "empty" => LiveCells(Active) = 0

----------------------------------------------------------------------------
(* C22 *)

\* C22 (the claim as stated): the Render invocations in flight, the pending
\* frame timeouts and the pending animation-frame callbacks number at most
\* one together.
C22_OneContinuation ==
    awaiting + timeouts + frames <= 1

\* C22 (amended): an animation-frame callback may be pending beside a Render
\* in flight or a frame timeout, yet there is one loop only: after every
\* handler at most one Render is in flight or waiting in its timeout, an
\* animation-frame callback that finds isRendering set returns at the guard
\* and starts nothing, and the engine is stepped only when no frame timeout
\* is pending, the step leaving exactly one.
C22_OneLoop ==
    [][ /\ awaiting' + timeouts' <= 1
        /\ (frames' < frames /\ isRendering) =>
               /\ isRendering'
               /\ UNCHANGED <<engine, awaiting, timeouts>>
        /\ stepsMod2' # stepsMod2 =>
               /\ timeouts = 0
               /\ timeouts' = 1
               /\ awaiting' = 0 ]_vars

\* An event came between the timeout clearing isRendering and the
\* animation-frame callback, which has now run and returned at the guard.
C22_Witness ==
    /\ did.handler = "requestAnimationFrame"
    /\ did.render = "guard"
    /\ awaiting + timeouts = 1

----------------------------------------------------------------------------
(* C23 *)

\* A Render invocation ends in its catch block
BitmapFailed ==
    awaiting' < awaiting /\ did'.render = "catch"

\* A Render invocation passes the guard and the empty-grid test
RenderStarted ==
    awaiting' > awaiting

\* The handler that ran was onEventReceived with a qualifying event
ByQualifyingEvent ==
    did'.handler = "onEventReceived" /\ did'.usable = "event"

\* C23 (the claim as stated): a failed bitmap means no step for that frame,
\* the engine unchanged, nothing scheduled and isRendering reset; after the
\* failure only a qualifying event starts a Render again.
C23_FailureStopsUntilEvent ==
    [][ /\ BitmapFailed =>
               /\ UNCHANGED <<engine, stepsMod2, timeouts, frames>>
               /\ ~isRendering'
        /\ (did.render = "catch" /\ RenderStarted) => ByQualifyingEvent ]_vars

\* C23 (amended): a failed bitmap means no step for that frame, the engine
\* unchanged, nothing scheduled and isRendering reset; with no animation-frame
\* callback pending the loop stays stopped until a qualifying event starts a
\* Render, and after the failure a Render is started only by such an event or
\* by an animation-frame callback that was pending when the bitmap failed.
C23_FailureStops ==
    [][ /\ BitmapFailed =>
               /\ UNCHANGED <<engine, stepsMod2, timeouts, frames>>
               /\ ~isRendering'
        /\ (hasInit /\ ~isRendering /\ frames = 0 /\ RenderStarted) =>
               ByQualifyingEvent
        /\ (did.render = "catch" /\ RenderStarted) =>
               \/ ByQualifyingEvent
               \/ did'.handler = "requestAnimationFrame" /\ frames' < frames
      ]_vars

\* The bitmap has failed with live cells on the grid and nothing is pending:
\* the loop is stopped.
C23_Witness ==
    /\ did.render = "catch"
    /\ LiveCells(Active) > 0
    /\ ~LoopRunning

====
